---- MODULE Spec2Model ----
(***************************************************************************)
(* A model of haystack/admin.py: SearchChangeList, the admin changelist    *)
(* that answers a search request from the search index instead of the      *)
(* database.                                                               *)
(*                                                                         *)
(* Python strings are tuples of one-character strings, so that the regular *)
(* expressions, the "in" tests and str.lstrip work on characters as they   *)
(* do in the source.  None is the one-element tuple <<"None">> and a       *)
(* datetime is a tuple that starts with the element "datetime": both       *)
(* differ from every string, whose elements are single characters.         *)
(***************************************************************************)
EXTENDS Integers, Sequences, FiniteSets, TLC

VARIABLES
    GET,                \* request.GET.items(), in iteration order
    method,             \* request.method
    fields,             \* indexed_model.fields.items(), in iteration order
    list_filter,        \* the admin's list_filter (field names)
    default_pk_field,   \* settings.HAYSTACK_ADMIN_DEFAULT_ORDER_BY_FIELD
    base_ordering,      \* what ChangeList.get_ordering returns
    hits,               \* what the index answers to the page query
    page_num,           \* self.page_num (zero-based)
    list_per_page,      \* self.list_per_page
    max_show_all,       \* what list_max_show_all(self) returns
    index_total,        \* what the index answers to the unfiltered count
    pc,                 \* "start", then "done" once the operation returned
    filters,            \* what custom_get_filters returned
    ordering,           \* what get_ordering returned
    path,               \* which branch get_results took
    sqs_log,            \* the calls made on SearchQuerySet, in order
    raised,             \* the exception that left the operation, or None
    result              \* the changelist's result attributes

vars == <<GET, method, fields, list_filter, default_pk_field, base_ordering,
          hits, page_num, list_per_page, max_show_all, index_total, pc,
          filters, ordering, path, sqs_log, raised, result>>

inputs == <<GET, method, fields, list_filter, default_pk_field,
            base_ordering, hits, page_num, list_per_page, max_show_all,
            index_total>>

(***************************************************************************)
(* Strings.                                                                *)
(***************************************************************************)
None == <<"None">>
NL == "\n"
UU == <<"_", "_">>

s_q          == <<"q">>
s_pk         == <<"p", "k">>
s_id         == <<"i", "d">>
s_contains   == <<"c", "o", "n", "t", "a", "i", "n", "s">>
s_exact      == <<"e", "x", "a", "c", "t">>
s_gt         == <<"g", "t">>
s_gte        == <<"g", "t", "e">>
s_lt         == <<"l", "t">>
s_lte        == <<"l", "t", "e">>
s_in         == <<"i", "n">>
s_startswith == <<"s", "t", "a", "r", "t", "s", "w", "i", "t", "h">>

Range(s) == {s[i] : i \in 1..Len(s)}
Max(S) == CHOOSE x \in S : \A y \in S : y <= x
Min(S) == CHOOSE x \in S : \A y \in S : x <= y

\* c in s, for a character c and a string s
HasChar(c, s) == \E i \in 1..Len(s) : s[i] = c

\* x in lst, for a Python list lst
InList(x, lst) == \E i \in 1..Len(lst) : lst[i] = x

\* "-" can be negated: "-{}".format(x)
Neg(x) == <<"-">> \o x

\* `.*` matches s[from+1 .. to] : any characters but a newline
DotStar(s, from, to) == \A i \in (from + 1)..to : s[i] # NL

\* `$` matches at position p: at the end, or just before a final newline
Dollar(s, p) == \/ p = Len(s)
                \/ p = Len(s) - 1 /\ s[Len(s)] = NL

(***************************************************************************)
(* pattern_lookup = re.compile('^.*__(.*$)'); pattern_lookup.findall(param)*)
(* The pattern is anchored at 0, so there is at most one match.  The first *)
(* `.*` is greedy: it takes the longest prefix i after which "__" and the  *)
(* rest of the pattern still match; the group then runs to p.              *)
(***************************************************************************)
GroupEnds(s, i) == {p \in (i + 2)..Len(s) : DotStar(s, i + 2, p) /\ Dollar(s, p)}

Splits(s) == {i \in 0..(Len(s) - 2) :
                 /\ DotStar(s, 0, i)
                 /\ s[i + 1] = "_" /\ s[i + 2] = "_"
                 /\ GroupEnds(s, i) # {}}

findall(s) == IF Splits(s) = {} THEN <<>>
              ELSE LET i == Max(Splits(s))
                       p == Max(GroupEnds(s, i))
                   IN  <<SubSeq(s, i + 3, p)>>

(***************************************************************************)
(* re.sub("__{}$".format(lookup), "", param): the text "__<lookup>" is     *)
(* removed where it is followed by `$`.  Two matches would overlap, so the *)
(* leftmost one is the only one.                                           *)
(***************************************************************************)
SubStarts(lookup, s) ==
    LET pat == UU \o lookup
    IN  {j \in 0..(Len(s) - Len(pat)) :
            /\ SubSeq(s, j + 1, j + Len(pat)) = pat
            /\ Dollar(s, j + Len(pat))}

re_sub(lookup, s) ==
    IF SubStarts(lookup, s) = {} THEN s
    ELSE LET j == Min(SubStarts(lookup, s))
         IN  SubSeq(s, 1, j) \o SubSeq(s, j + Len(lookup) + 3, Len(s))

\* str.lstrip('-')
RECURSIVE lstrip_minus(_)
lstrip_minus(s) == IF Len(s) > 0 /\ s[1] = "-" THEN lstrip_minus(Tail(s)) ELSE s

(***************************************************************************)
(* Dictionaries are functions; d[k] = v overwrites.                        *)
(***************************************************************************)
EmptyDict == <<>>
DictSet(d, k, v) == [x \in (DOMAIN d) \cup {k} |-> IF x = k THEN v ELSE d[x]]
DictGet(d, k) == IF k \in DOMAIN d THEN d[k] ELSE None

\* Python truth of a string or None
Truthy(x) == x # None /\ x # <<>>

(***************************************************************************)
(* SearchChangeList.__init__                                               *)
(***************************************************************************)
valid_lookups == <<s_contains, s_exact, s_gt, s_gte, s_lt, s_lte, s_in,
                   s_startswith>>

(***************************************************************************)
(* dateutil.parser.parse, as custom_get_filters uses it: a datetime for    *)
(* the strings that are dates, ValueError for the others.                  *)
(***************************************************************************)
v_abc      == <<"a", "b", "c">>
v_datetime == <<"2", "0", "2", "0", "-", "0", "1", "-", "1", "5", "T",
                "1", "0", ":", "0", "0", ":", "0", "0">>
v_date     == <<"2", "0", "2", "0", "-", "0", "1", "-", "1", "5">>
v_junk     == <<"a", "-", "b", ":", "c">>
v_empty    == <<>>

DateStrings == {v_datetime, v_date}
IsDateTime(x) == Len(x) > 0 /\ x[1] = "datetime"
DateTime(s) == <<"datetime">> \o s
\* the outcome of parse_date(s): the exception raised ("None" for none) and
\* the value returned
parse_date(s) == IF s \in DateStrings
                 THEN [exc |-> "None", value |-> DateTime(s)]
                 ELSE [exc |-> "ValueError", value |-> None]

(***************************************************************************)
(* SearchChangeList.custom_get_filters                                     *)
(***************************************************************************)
\* for param, query in request.GET.items(): ... (the first loop)
RECURSIVE lookup_query_list(_, _, _)
lookup_query_list(items, i, acc) ==
    IF i > Len(items) THEN acc
    ELSE LET param == items[i].name
             query == items[i].value
             found == findall(param)
         IN  IF found = <<>>
             THEN lookup_query_list(items, i + 1, acc)      \* IndexError: pass
             ELSE LET lookup == found[1]
                  IN  IF InList(lookup, valid_lookups)
                      THEN lookup_query_list(items, i + 1,
                               Append(acc, [model_attr |-> re_sub(lookup, param),
                                            lookup |-> lookup,
                                            query |-> query]))
                      ELSE lookup_query_list(items, i + 1, acc)

\* a second loop that keys the map by the field's name, not its model_attr
RECURSIVE indexed_field_map_m(_, _, _)
indexed_field_map_m(flds, i, acc) ==
    IF i > Len(flds) THEN acc
    ELSE indexed_field_map_m(flds, i + 1, DictSet(acc, flds[i].name, flds[i].name))

\* for name, field in indexed_model.fields.items(): ... (the second loop)
RECURSIVE indexed_field_map(_, _, _)
indexed_field_map(flds, i, acc) ==
    IF i > Len(flds) THEN acc
    ELSE indexed_field_map(flds, i + 1,
                           DictSet(acc, flds[i].model_attr, flds[i].name))

\* a date test that forgets the colon
looks_like_datetime_m(query) == \E i \in 1..Len(query) : query[i] = "-"

\* if "-" in query and ":" in query
looks_like_datetime(query) == HasChar("-", query) /\ HasChar(":", query)

\* except (TypeError, ValueError): pass
caught(exc) == exc \in {"TypeError", "ValueError"}

\* a key that forgets the lookup
filter_key_m(indexed_field, lookup) == indexed_field

\* "{}__{}".format(indexed_field, lookup)
filter_key(indexed_field, lookup) == indexed_field \o UU \o lookup

\* a third loop without its "if indexed_field"
keeps_m(indexed_field) == TRUE

\* whether the third loop keeps an entry: if indexed_field
keeps(indexed_field) == Truthy(indexed_field)

\* the third loop ("Magic"); acc is [map, raised], and an exception that is
\* not caught ends the loop
RECURSIVE query_map(_, _, _, _)
query_map(lst, attr_map, i, acc) ==
    IF i > Len(lst) \/ acc.raised # "None" THEN acc
    ELSE LET indexed_field == DictGet(attr_map, lst[i].model_attr)
             lookup == lst[i].lookup
             query == lst[i].query
             parsed == parse_date(query)
         IN  IF ~keeps(indexed_field)
             THEN query_map(lst, attr_map, i + 1, acc)
             ELSE IF ~looks_like_datetime(query)
             THEN query_map(lst, attr_map, i + 1,
                     [acc EXCEPT !.map = DictSet(@, filter_key(indexed_field, lookup), query)])
             ELSE IF parsed.exc = "None"
             THEN query_map(lst, attr_map, i + 1,
                     [acc EXCEPT !.map = DictSet(@, filter_key(indexed_field, lookup), parsed.value)])
             ELSE IF caught(parsed.exc)
             THEN query_map(lst, attr_map, i + 1,
                     [acc EXCEPT !.map = DictSet(@, filter_key(indexed_field, lookup), query)])
             ELSE [acc EXCEPT !.raised = parsed.exc]

custom_get_filters(items, flds) ==
    query_map(lookup_query_list(items, 1, <<>>),
              indexed_field_map(flds, 1, EmptyDict),
              1,
              [map |-> EmptyDict, raised |-> "None"])

(***************************************************************************)
(* request.GET as a mapping                                                *)
(***************************************************************************)
\* key in request.GET
HasKey(items, key) == \E i \in 1..Len(items) : items[i].name = key

\* request.GET[key], for a key that is there
GetItem(items, key) == items[CHOOSE i \in 1..Len(items) : items[i].name = key].value

\* len(request.GET.keys())
NumKeys(items) == Cardinality({items[i].name : i \in 1..Len(items)})

\* django.contrib.admin.views.main.SEARCH_VAR
SEARCH_VAR == s_q

(***************************************************************************)
(* SearchChangeList.get_ordering                                           *)
(***************************************************************************)
\* a get_ordering that forgets the POST test
ordering_untouched_m(items, meth) ==
    IF \A i \in 1..Len(items) : items[i].name # s_q THEN TRUE
    ELSE \E i \in 1..Len(items) :
             items[i].name = s_q /\ Len(items[i].value) = 0 /\ Len(items) = 1

\* the condition under which get_ordering returns the ordering as it is
ordering_untouched(items, meth) ==
    IF ~HasKey(items, SEARCH_VAR) THEN TRUE
    ELSE IF Len(GetItem(items, SEARCH_VAR)) = 0 /\ NumKeys(items) = 1 THEN TRUE
    ELSE meth = "POST"

\* indexed_model.fields.keys()
indexed_fields(flds) == {flds[i].name : i \in 1..Len(flds)}

\* a rewrite that loses the descending sign
pk_rewrite_m(field, pk_field) ==
    IF field \in {s_pk, s_id, <<"-">> \o s_pk, <<"-">> \o s_id} THEN pk_field
    ELSE field

\* what the loop makes of a primary-key entry
pk_rewrite(field, pk_field) ==
    IF InList(field, <<Neg(s_pk), Neg(s_id)>>) THEN Neg(pk_field)
    ELSE IF InList(field, <<s_pk, s_id>>) THEN pk_field
    ELSE field

\* for field in ordering: ... sane_ordering.append(field)
RECURSIVE sane_ordering(_, _, _, _, _)
sane_ordering(ord, pk_field, names, i, acc) ==
    IF i > Len(ord) THEN acc
    ELSE LET field == pk_rewrite(ord[i], pk_field)
             abs_field == lstrip_minus(field)
         IN  IF abs_field \in names
             THEN sane_ordering(ord, pk_field, names, i + 1, Append(acc, field))
             ELSE sane_ordering(ord, pk_field, names, i + 1, acc)

\* filter(lambda x: x not in ['pk', '-pk', 'id', '-id'], ordering)
NotPk(x) == ~InList(x, <<s_pk, Neg(s_pk), s_id, Neg(s_id)>>)
without_pk(ord) == SelectSeq(ord, NotPk)

get_ordering(items, meth, flds, pk_field, ord) ==
    IF ordering_untouched(items, meth) THEN ord
    ELSE IF Truthy(pk_field)
    THEN sane_ordering(ord, pk_field, indexed_fields(flds), 1, <<>>)
    ELSE without_pk(ord)

(***************************************************************************)
(* django.core.paginator.Paginator(sqs, per_page), as get_results uses it: *)
(* no orphans, an empty first page allowed.                                *)
(***************************************************************************)
paginator_count(object_list) == Len(object_list)

num_pages(object_list, per_page) ==
    IF paginator_count(object_list) = 0 THEN 1
    ELSE (paginator_count(object_list) + per_page - 1) \div per_page

\* paginator.page(number): the exception raised ("None" for none) and the
\* page's object_list
paginator_page(object_list, per_page, number) ==
    IF number < 1 \/ number > num_pages(object_list, per_page)
    THEN [exc |-> "EmptyPage", object_list |-> <<>>]
    ELSE LET bottom == (number - 1) * per_page
             top == IF bottom + per_page >= paginator_count(object_list)
                    THEN paginator_count(object_list)
                    ELSE bottom + per_page
         IN  [exc |-> "None", object_list |-> SubSeq(object_list, bottom + 1, top)]

(***************************************************************************)
(* SearchChangeList.get_results                                            *)
(***************************************************************************)
\* a SearchResult whose object was loaded (load_all), and its object; the
\* page holds None where the index had no loadable result
Hit(obj) == <<"SearchResult", obj>>
ObjectOf(hit) == hit[2]

\* a get_results that forgets the other parameters beside an empty term
search_inactive_m(items) ==
    IF \A i \in 1..Len(items) : items[i].name # s_q THEN TRUE
    ELSE \E i \in 1..Len(items) : items[i].name = s_q /\ Len(items[i].value) = 0

\* the condition under which get_results calls the framework's get_results
search_inactive(items) ==
    IF ~HasKey(items, SEARCH_VAR) THEN TRUE
    ELSE Len(GetItem(items, SEARCH_VAR)) = 0 /\ NumKeys(items) = 1

\* an except clause that names PageNotAnInteger only
invalid_page_m(exc) == exc = "PageNotAnInteger"

\* except InvalidPage: EmptyPage and PageNotAnInteger are InvalidPage
invalid_page(exc) == exc \in {"InvalidPage", "EmptyPage", "PageNotAnInteger"}

\* if result, for a page entry
result_truthy(entry) == entry # None

\* [result.object for result in result_list if result]
RECURSIVE objects_of(_, _, _)
objects_of(page_list, i, acc) ==
    IF i > Len(page_list) THEN acc
    ELSE IF result_truthy(page_list[i])
    THEN objects_of(page_list, i + 1, Append(acc, ObjectOf(page_list[i])))
    ELSE objects_of(page_list, i + 1, acc)

\* a try block that hands the page's entries on as they are
page_result_list_m(object_list, per_page, number) ==
    LET page == paginator_page(object_list, per_page, number)
    IN  [exc |-> "None", result_list |-> page.object_list]

\* the try ... except InvalidPage block: result_list, or the exception that
\* is not caught
page_result_list(object_list, per_page, number) ==
    LET page == paginator_page(object_list, per_page, number)
    IN  IF page.exc = "None"
        THEN [exc |-> "None", result_list |-> objects_of(page.object_list, 1, <<>>)]
        ELSE IF invalid_page(page.exc)
        THEN [exc |-> "None", result_list |-> <<>>]
        ELSE [exc |-> page.exc, result_list |-> <<>>]

\* the calls that build and run the page query
query_calls(items, flt) ==
    <<"models">>
    \o (IF Truthy(GetItem(items, SEARCH_VAR)) THEN <<"auto_query">> ELSE <<>>)
    \o (IF DOMAIN flt # {} THEN <<"filter">> ELSE <<>>)
    \o <<"load_all", "order_by", "count">>

\* the result attributes before get_results ran, and what the framework's
\* ChangeList.get_results leaves
NoResult == [by |-> "nobody"]
DefaultResult == [by |-> "ChangeList.get_results"]

(***************************************************************************)
(* The operations.  Each runs once on the request and the configuration    *)
(* that Init drew: a request is handled from scratch.                      *)
(***************************************************************************)
CustomGetFilters ==
    /\ pc = "start"
    /\ LET r == custom_get_filters(GET, fields)
       IN  /\ filters' = r.map
           /\ raised' = r.raised
    /\ pc' = "done"
    /\ UNCHANGED <<inputs, ordering, path, sqs_log, result>>

GetOrdering ==
    /\ pc = "start"
    /\ ordering' = get_ordering(GET, method, fields, default_pk_field, base_ordering)
    /\ pc' = "done"
    /\ UNCHANGED <<inputs, filters, path, sqs_log, raised, result>>

\* return super(SearchChangeList, self).get_results(request)
GetResultsDefault ==
    /\ pc = "start"
    /\ search_inactive(GET)
    /\ path' = "default"
    /\ result' = DefaultResult
    /\ pc' = "done"
    /\ UNCHANGED <<inputs, filters, ordering, sqs_log, raised>>

GetResultsSearch ==
    /\ pc = "start"
    /\ ~search_inactive(GET)
    /\ path' = "search"
    /\ pc' = "done"
    /\ LET f == custom_get_filters(GET, fields)
           ord == get_ordering(GET, method, fields, default_pk_field, base_ordering)
           result_count == paginator_count(hits)
           page == page_result_list(hits, list_per_page, page_num + 1)
       IN  IF f.raised # "None"
           THEN /\ raised' = f.raised
                /\ UNCHANGED <<filters, ordering, sqs_log, result>>
           ELSE /\ filters' = f.map
                /\ ordering' = ord
                /\ sqs_log' = query_calls(GET, f.map) \o <<"models", "all", "count">>
                /\ raised' = page.exc
                /\ result' = IF page.exc # "None" THEN result
                             ELSE [by |-> "SearchChangeList.get_results",
                                   result_count |-> result_count,
                                   full_result_count |-> index_total,
                                   result_list |-> page.result_list,
                                   can_show_all |-> (result_count <= max_show_all),
                                   multi_page |-> (result_count > list_per_page),
                                   paginator |-> [count |-> result_count,
                                                  per_page |-> list_per_page]]
    /\ UNCHANGED inputs

(***************************************************************************)
(* The requests and configurations the operations run on.                  *)
(***************************************************************************)
MaxParams == 2
MaxFields == 2
MaxOrdering == 2
MaxHits == 3
MaxPageNum == 5
MaxPerPage == 2

SeqsUpTo(S, n) == UNION {[1..k -> S] : k \in 0..n}

\* request.GET: at most n parameters, no name twice
Requests(names, values, n) ==
    {g \in SeqsUpTo([name : names, value : values], n) :
        \A i, j \in 1..Len(g) : g[i].name = g[j].name => i = j}

\* an index's fields: at most n fields, no name twice
FieldTables(items, n) ==
    {t \in SeqsUpTo(items, n) :
        \A i, j \in 1..Len(t) : t[i].name = t[j].name => i = j}

P(attr, lookup) == attr \o UU \o lookup

f_b == <<"b">>
f_u == <<"u">>
f_created_at == <<"c", "r", "e", "a", "t", "e", "d", "_", "a", "t">>
f_title == <<"t", "i", "t", "l", "e">>
f_rank == <<"r", "a", "n", "k">>
a_b_id == P(f_b, s_id)
a_u == <<"u">>
s_o == <<"o">>

FilterParamNames ==
    {s_q,                              \* the search term
     a_b_id,                           \* "b__id": the lookup "id" is not valid
     P(a_b_id, s_exact),               \* "b__id__exact"
     P(a_b_id, s_gte),                 \* "b__id__gte"
     P(a_u, s_in),                     \* "u__in"
     P(a_b_id, s_exact) \o <<NL>>}     \* "b__id__exact\n"

FilterValues == {v_abc, v_datetime, v_date, v_junk}

FilterFields == [name : {f_b}, model_attr : {a_b_id, None}]
                \cup [name : {f_u}, model_attr : {a_u, a_b_id}]

InitOutputs ==
    /\ pc = "start"
    /\ filters = EmptyDict
    /\ ordering = <<>>
    /\ path = "none"
    /\ sqs_log = <<>>
    /\ raised = "None"
    /\ result = NoResult

InitFilters ==
    /\ GET \in Requests(FilterParamNames, FilterValues, MaxParams)
    /\ fields \in FieldTables(FilterFields, MaxFields)
    /\ list_filter = {f_u}
    /\ method = "GET"
    /\ default_pk_field = None
    /\ base_ordering = <<>>
    /\ hits = <<>>
    /\ page_num = 0
    /\ list_per_page = 1
    /\ max_show_all = 0
    /\ index_total = 0
    /\ InitOutputs

OrderingEntries == {s_pk, Neg(s_pk), s_id, Neg(s_id), f_rank, Neg(f_title),
                    f_created_at}

OrderingFields == [name : {f_created_at, f_title}, model_attr : {None}]

InitOrdering ==
    /\ GET \in Requests({s_q, s_o}, {v_empty, v_abc}, MaxParams)
    /\ method \in {"GET", "POST"}
    /\ fields \in FieldTables(OrderingFields, MaxFields)
    /\ default_pk_field \in {None, f_created_at, f_rank}
    /\ base_ordering \in SeqsUpTo(OrderingEntries, MaxOrdering)
    /\ list_filter = {}
    /\ hits = <<>>
    /\ page_num = 0
    /\ list_per_page = 1
    /\ max_show_all = 0
    /\ index_total = 0
    /\ InitOutputs

o1 == <<"o1">>
o2 == <<"o2">>
PageEntries == {None, Hit(o1), Hit(o2)}

InitResults ==
    /\ GET \in Requests({s_q, P(a_b_id, s_exact)}, {v_empty, v_abc}, MaxParams)
    /\ method \in {"GET", "POST"}
    /\ fields = <<[name |-> f_b, model_attr |-> a_b_id],
                  [name |-> f_created_at, model_attr |-> None]>>
    /\ default_pk_field = f_created_at
    /\ base_ordering = <<Neg(s_id), f_rank>>
    /\ list_filter = {}
    /\ hits \in SeqsUpTo(PageEntries, MaxHits)
    /\ page_num \in (-1)..MaxPageNum
    /\ list_per_page \in 1..MaxPerPage
    /\ max_show_all \in {0, MaxHits}
    /\ index_total \in {Len(hits), MaxHits}
    /\ InitOutputs

NextFilters == CustomGetFilters
NextOrdering == GetOrdering
Next == GetResultsDefault \/ GetResultsSearch

SpecFilters == InitFilters /\ [][NextFilters]_vars
SpecOrdering == InitOrdering /\ [][NextOrdering]_vars
Spec == InitResults /\ [][Next]_vars

(***************************************************************************)
(* What the claims speak of, said of the request itself.                   *)
(***************************************************************************)
\* the search term is not among the parameters
TermAbsent == \A i \in 1..Len(GET) : GET[i].name # s_q

\* the search term is the only parameter and is empty
TermEmptyAlone == Len(GET) = 1 /\ GET[1].name = s_q /\ GET[1].value = <<>>

SearchActive == ~TermAbsent /\ ~TermEmptyAlone

LookupSet == {s_contains, s_exact, s_gt, s_gte, s_lt, s_lte, s_in, s_startswith}

\* "__" occurs in s at or after position k
UUFrom(s, k) == \E m \in k..(Len(s) - 1) : s[m] = "_" /\ s[m + 1] = "_"

\* parameter i is "<attr>__<op>" with op the text after its last "__", attr
\* the model_attr of field j; key is "<name of j>__<op>"
Translates(i, j, op, key) ==
    /\ GET[i].name = fields[j].model_attr \o UU \o op
    /\ ~UUFrom(GET[i].name, Len(fields[j].model_attr) + 2)
    /\ key = fields[j].name \o UU \o op

\* parameter i survives the translation, as the key
SurvivesAs(i, key) ==
    \E j \in 1..Len(fields), op \in LookupSet : Translates(i, j, op, key)

Survivors == {i \in 1..Len(GET) : \E key \in DOMAIN filters : SurvivesAs(i, key)}

(***************************************************************************)
(* C1: get_results takes the pass-through path (the framework's            *)
(* get_results, no call on the index) exactly when the search term is      *)
(* absent, or is empty and the only parameter; in every other case it      *)
(* takes the search path and queries the index.                            *)
(***************************************************************************)
C1_PassThroughExactly ==
    pc = "done" =>
        IF TermAbsent \/ TermEmptyAlone
        THEN path = "default" /\ sqs_log = <<>> /\ result = DefaultResult
        ELSE path = "search" /\ sqs_log # <<>> /\ result # DefaultResult

\* the search term is there, empty and alone, and the framework answered
C1_Witness ==
    /\ pc = "done" /\ path = "default"
    /\ Len(GET) = 1 /\ GET[1].name = s_q /\ GET[1].value = <<>>

(***************************************************************************)
(* C2: every key of the mapping custom_get_filters returns is              *)
(* "<F>__<op>" for a request parameter "<attr>__<op>" whose <op>, the text *)
(* after its last "__", is a valid lookup and whose <attr> is the          *)
(* model_attr of the indexed field F.                                      *)
(***************************************************************************)
C2_KeysFromParams ==
    pc = "done" =>
        \A key \in DOMAIN filters : \E i \in 1..Len(GET) : SurvivesAs(i, key)

\* two parameters, one translated and one dropped
C2_Witness ==
    /\ pc = "done" /\ Len(GET) = 2
    /\ Cardinality(DOMAIN filters) = 1

(***************************************************************************)
(* C3, as claimed: every key of the translated mapping is for a field the  *)
(* admin declares filterable (list_filter).                                *)
(***************************************************************************)
C3_OnlyFilterable ==
    pc = "done" =>
        \A key \in DOMAIN filters :
            \E f \in list_filter, op \in LookupSet : key = f \o UU \o op

(***************************************************************************)
(* C3, amended: every key of the translated mapping is for a field of the  *)
(* index, and a parameter with a valid lookup whose attribute is the       *)
(* model_attr of an indexed field is translated whether or not the admin   *)
(* declares the field filterable.                                          *)
(***************************************************************************)
C3_OnlyIndexed ==
    pc = "done" =>
        /\ \A key \in DOMAIN filters :
              \E j \in 1..Len(fields), op \in LookupSet :
                  key = fields[j].name \o UU \o op
        /\ \A i \in 1..Len(GET), j \in 1..Len(fields), op \in LookupSet :
              GET[i].name = fields[j].model_attr \o UU \o op
                  => \E key \in DOMAIN filters : SurvivesAs(i, key)

\* a parameter was translated to a field the admin does not declare
C3_Witness ==
    /\ pc = "done" /\ f_b \notin list_filter
    /\ f_b \o UU \o s_exact \in DOMAIN filters

(***************************************************************************)
(* What the ordering claims speak of.                                      *)
(***************************************************************************)
\* an ordering entry without its leading descending sign
Unsigned(e) == IF Len(e) > 0 /\ e[1] = "-" THEN Tail(e) ELSE e

IndexNames == {fields[j].name : j \in 1..Len(fields)}

InIndex(e) == Unsigned(e) \in IndexNames

\* the default ordering with every primary-key entry rewritten to sub
Rewritten(sub) ==
    [k \in 1..Len(base_ordering) |->
        IF base_ordering[k] \in {s_pk, s_id} THEN sub
        ELSE IF base_ordering[k] \in {Neg(s_pk), Neg(s_id)} THEN Neg(sub)
        ELSE base_ordering[k]]

(***************************************************************************)
(* C4: whenever search is active and the request is not a POST, every      *)
(* entry of the ordering get_ordering returns names, without its           *)
(* descending sign, a field of the index, with or without a substitute     *)
(* primary-key field configured.                                           *)
(***************************************************************************)
C4_OrderingInIndex ==
    (pc = "done" /\ SearchActive /\ method # "POST") =>
        \A k \in 1..Len(ordering) : InIndex(ordering[k])

(***************************************************************************)
(* C5: when search is active, the request is not a POST and a substitute   *)
(* S is configured, get_ordering returns the default ordering with every   *)
(* "pk"/"id" rewritten to S and every "-pk"/"-id" to "-S", in the same     *)
(* relative order, and then without the entries that are not index fields; *)
(* ["-id"] with the substitute "created_at" gives ["-created_at"].         *)
(***************************************************************************)
C5_PkRewritten ==
    (pc = "done" /\ SearchActive /\ method # "POST" /\ default_pk_field # None) =>
        /\ ordering = SelectSeq(Rewritten(default_pk_field), InIndex)
        /\ (/\ base_ordering = <<Neg(s_id)>>
            /\ default_pk_field = f_created_at
            /\ f_created_at \in IndexNames) => ordering = <<Neg(f_created_at)>>

\* ["-id"] became ["-created_at"]
C5_Witness ==
    /\ pc = "done" /\ SearchActive /\ method = "GET"
    /\ default_pk_field = f_created_at
    /\ base_ordering = <<Neg(s_id)>>
    /\ ordering = <<Neg(f_created_at)>>

(***************************************************************************)
(* C8: get_ordering returns the default ordering as it is whenever search  *)
(* is inactive or the request is a POST, whatever the substitute and the   *)
(* index fields are.                                                       *)
(***************************************************************************)
C8_OrderingUntouched ==
    (pc = "done" /\ (TermAbsent \/ TermEmptyAlone \/ method = "POST")) =>
        ordering = base_ordering

\* a POST with a search term and a substitute keeps its "pk" and its "rank"
C8_Witness ==
    /\ pc = "done" /\ method = "POST" /\ SearchActive
    /\ default_pk_field = f_created_at
    /\ base_ordering = <<s_pk, f_rank>>
    /\ ordering = <<s_pk, f_rank>>

(***************************************************************************)
(* What the result claims speak of.                                        *)
(***************************************************************************)
\* the entries of the requested page, in hit order
PageSlice ==
    SubSeq(hits, page_num * list_per_page + 1,
           IF (page_num + 1) * list_per_page < Len(hits)
           THEN (page_num + 1) * list_per_page ELSE Len(hits))

Resolved(entry) == entry # None

\* the requested page lies beyond the last page
BeyondLastPage == page_num >= 1 /\ page_num * list_per_page >= Len(hits)

(***************************************************************************)
(* C6: on the search path, a page number beyond the last page raises       *)
(* nothing and leaves an empty result_list, with result_count,             *)
(* full_result_count, can_show_all, multi_page and paginator set from the  *)
(* query.                                                                  *)
(***************************************************************************)
C6_EmptyPageNoError ==
    (pc = "done" /\ path = "search" /\ BeyondLastPage) =>
        /\ raised = "None"
        /\ result.by = "SearchChangeList.get_results"
        /\ result.result_list = <<>>
        /\ result.result_count = Len(hits)
        /\ result.full_result_count = index_total
        /\ result.can_show_all = (Len(hits) <= max_show_all)
        /\ result.multi_page = (Len(hits) > list_per_page)
        /\ result.paginator.count = Len(hits)

\* page 5 of a result set of one page
C6_Witness ==
    /\ pc = "done" /\ path = "search"
    /\ page_num = 5 /\ Len(hits) >= 1 /\ Len(hits) <= list_per_page
    /\ raised = "None" /\ result.result_list = <<>>

(***************************************************************************)
(* C9: on the search path, result_list is the objects of the resolved      *)
(* entries of the requested page, in hit order: it holds no unresolved     *)
(* (None) element and is never longer than the page size.                  *)
(***************************************************************************)
C9_OnlyResolvedObjects ==
    (pc = "done" /\ path = "search") =>
        /\ raised = "None"
        /\ \A k \in 1..Len(result.result_list) : result.result_list[k] # None
        /\ Len(result.result_list) <= list_per_page
        /\ (page_num >= 0 /\ ~BeyondLastPage) =>
              LET kept == SelectSeq(PageSlice, Resolved)
              IN  result.result_list = [k \in 1..Len(kept) |-> kept[k][2]]

\* a page of an unresolved entry and an object
C9_Witness ==
    /\ pc = "done" /\ path = "search"
    /\ page_num = 0 /\ list_per_page = 2
    /\ hits = <<None, Hit(o2), Hit(o1)>>
    /\ result.result_list = <<o2>>

Swapped(k) == [GET EXCEPT ![k] = GET[k + 1], ![k + 1] = GET[k]]

C10_Injective ==
    pc = "done" =>
        /\ \A i1, i2 \in 1..Len(GET) : \A key \in DOMAIN filters :
              (SurvivesAs(i1, key) /\ SurvivesAs(i2, key)) => i1 = i2
        /\ Cardinality(DOMAIN filters) = Cardinality(Survivors)
        /\ \A k \in 1..(Len(GET) - 1) :
              custom_get_filters(Swapped(k), fields).map = filters

\* two parameters on the same field, two keys
C10_Witness ==
    /\ pc = "done" /\ Len(GET) = 2
    /\ Cardinality(DOMAIN filters) = 2
    /\ \E j \in 1..Len(fields) :
          DOMAIN filters = {fields[j].name \o UU \o s_exact, fields[j].name \o UU \o s_gte}

====
